---- MODULE Spec2Model ----
(***************************************************************************)
(* Model of nutag (src/src/main.rs): the Tag value type (parsing,          *)
(* rendering, derived order), increment_tag / next_prerelease, and the     *)
(* control flow of main that selects the latest tag and proposes the next. *)
(*                                                                         *)
(* Strings are sequences of one-character strings, so that parsing and     *)
(* rendering are computed character by character as the code does.         *)
(***************************************************************************)
EXTENDS Integers, Sequences, FiniteSets, TLC

\* ------------------------------------------------------------------------
\* Bounds of the model
\* ------------------------------------------------------------------------
\* number of consecutive runs of the tool on the same repository
MaxRuns == 2
\* cap on major / minor / patch in a proposed version
MaxVer == 3

\* ------------------------------------------------------------------------
\* Characters and strings
\* ------------------------------------------------------------------------
DigitChars == <<"0", "1", "2", "3", "4", "5", "6", "7", "8", "9">>

\* the characters of the model's strings in ASCII (byte) order
AsciiOrder ==
    <<"+", "-", ".", "0", "1", "2", "3", "4", "5", "6", "7", "8", "9", "@",
      "a", "b", "c", "d", "e", "f", "g", "h", "i", "j", "k", "l", "m", "n",
      "o", "p", "q", "r", "s", "t", "u", "v", "w", "x", "y", "z">>

Code(c) == CHOOSE i \in 1..Len(AsciiOrder) : AsciiOrder[i] = c

IsDigit(c) == \E i \in 1..10 : DigitChars[i] = c

DigitVal(c) == (CHOOSE i \in 1..10 : DigitChars[i] = c) - 1

AllDigits(s) == \A i \in 1..Len(s) : IsDigit(s[i])

\* [0-9A-Za-z-], the characters of a semver identifier
IsIdentChar(c) == c \notin {"+", ".", "@"}

\* str::find(c): index of the first c in s, 0 when there is none
FirstIndex(s, c) ==
    IF \E i \in 1..Len(s) : s[i] = c
    THEN CHOOSE i \in 1..Len(s) : s[i] = c /\ \A j \in 1..(i - 1) : s[j] # c
    ELSE 0

StartsWith(s, p) == Len(s) >= Len(p) /\ SubSeq(s, 1, Len(p)) = p

\* str::contains(needle)
Contains(s, needle) ==
    \E i \in 1..(Len(s) - Len(needle) + 1) :
        SubSeq(s, i, i + Len(needle) - 1) = needle

\* str::split('.'): the segments between the dots (one empty segment for "")
RECURSIVE SplitDot(_)
SplitDot(s) ==
    LET d == FirstIndex(s, ".")
    IN  IF d = 0 THEN <<s>>
        ELSE <<SubSeq(s, 1, d - 1)>> \o SplitDot(SubSeq(s, d + 1, Len(s)))

\* Ord for str: lexicographic by bytes; -1, 0, 1
StrCmp(a, b) ==
    LET n == IF Len(a) < Len(b) THEN Len(a) ELSE Len(b)
        diff == {i \in 1..n : a[i] # b[i]}
    IN  IF diff = {}
        THEN (IF Len(a) < Len(b) THEN -1 ELSE IF Len(a) > Len(b) THEN 1 ELSE 0)
        ELSE LET i == CHOOSE k \in diff : \A j \in diff : k <= j
             IN  IF Code(a[i]) < Code(b[i]) THEN -1 ELSE 1

IntCmp(a, b) == IF a < b THEN -1 ELSE IF a > b THEN 1 ELSE 0

\* decimal value of a digit string
RECURSIVE DigitsToNat(_)
DigitsToNat(s) ==
    IF s = <<>> THEN 0
    ELSE DigitsToNat(SubSeq(s, 1, Len(s) - 1)) * 10 + DigitVal(s[Len(s)])

\* Display for an unsigned integer
RECURSIVE NatToDigits(_)
NatToDigits(n) ==
    IF n < 10 THEN <<DigitChars[n + 1]>>
    ELSE NatToDigits(n \div 10) \o <<DigitChars[(n % 10) + 1]>>

\* ------------------------------------------------------------------------
\* semver::Version (the crate the code parses, renders and orders with)
\* ------------------------------------------------------------------------
EmptyStr == <<>>

\* Option<String>
None == [some |-> FALSE, s |-> EmptyStr]

Some(str) == [some |-> TRUE, s |-> str]

\* a parse result: Err, or Ok(val)
ErrV == [ok |-> FALSE]

OkV(val) == [ok |-> TRUE, val |-> val]

\* a numeric identifier of major.minor.patch: digits, no leading zero
ValidNumeric(seg) ==
    /\ seg # EmptyStr
    /\ AllDigits(seg)
    /\ (Len(seg) > 1 => seg[1] # "0")

\* the identifiers of a prerelease (strict: no leading zero in a numeric
\* identifier) or of build metadata (not strict)
ValidIdents(str, strict) ==
    /\ str # EmptyStr
    /\ \A i \in 1..Len(str) : IsIdentChar(str[i]) \/ str[i] = "."
    /\ LET segs == SplitDot(str)
       IN  \A k \in 1..Len(segs) :
               /\ segs[k] # EmptyStr
               /\ (strict /\ AllDigits(segs[k]) /\ Len(segs[k]) > 1
                      => segs[k][1] # "0")

\* semver::Version::parse, as called at main.rs:474 and main.rs:435
VersionParse(text) ==
    LET plus  == FirstIndex(text, "+")
        left  == IF plus = 0 THEN text ELSE SubSeq(text, 1, plus - 1)
        build == IF plus = 0 THEN EmptyStr ELSE SubSeq(text, plus + 1, Len(text))
        dash  == FirstIndex(left, "-")
        core  == IF dash = 0 THEN left ELSE SubSeq(left, 1, dash - 1)
        pre   == IF dash = 0 THEN EmptyStr ELSE SubSeq(left, dash + 1, Len(left))
        nums  == SplitDot(core)
    IN  IF /\ Len(nums) = 3
           /\ \A k \in 1..3 : ValidNumeric(nums[k])
           /\ (dash # 0 => ValidIdents(pre, TRUE))
           /\ (plus # 0 => ValidIdents(build, FALSE))
        THEN OkV([major |-> DigitsToNat(nums[1]),
                  minor |-> DigitsToNat(nums[2]),
                  patch |-> DigitsToNat(nums[3]),
                  pre   |-> pre,
                  build |-> build])
        ELSE ErrV

\* Display for semver::Version, as called at main.rs:451
VersionDisplay(v) ==
    NatToDigits(v.major) \o <<".">> \o NatToDigits(v.minor) \o <<".">>
        \o NatToDigits(v.patch)
        \o (IF v.pre = EmptyStr THEN EmptyStr ELSE <<"-">> \o v.pre)
        \o (IF v.build = EmptyStr THEN EmptyStr ELSE <<"+">> \o v.build)

\* one prerelease identifier against another
PreIdentCmp(l, r) ==
    IF AllDigits(l) /\ AllDigits(r)
    THEN (IF Len(l) # Len(r) THEN IntCmp(Len(l), Len(r)) ELSE StrCmp(l, r))
    ELSE IF AllDigits(l) THEN -1
    ELSE IF AllDigits(r) THEN 1
    ELSE StrCmp(l, r)

\* a digit string without its leading zeros
RECURSIVE TrimZeros(_)
TrimZeros(s) ==
    IF s # EmptyStr /\ s[1] = "0" THEN TrimZeros(Tail(s)) ELSE s

\* one build identifier against another
BuildIdentCmp(l, r) ==
    IF AllDigits(l) /\ AllDigits(r)
    THEN LET lv == TrimZeros(l)
             rv == TrimZeros(r)
         IN  IF Len(lv) # Len(rv) THEN IntCmp(Len(lv), Len(rv))
             ELSE IF StrCmp(lv, rv) # 0 THEN StrCmp(lv, rv)
             ELSE IntCmp(Len(l), Len(r))
    ELSE IF AllDigits(l) THEN -1
    ELSE IF AllDigits(r) THEN 1
    ELSE StrCmp(l, r)

\* identifier lists, left to right; the longer list is the greater one
IdentsCmp(ls, rs, strictPre) ==
    LET n    == IF Len(ls) < Len(rs) THEN Len(ls) ELSE Len(rs)
        c(k) == IF strictPre THEN PreIdentCmp(ls[k], rs[k])
                ELSE BuildIdentCmp(ls[k], rs[k])
        diff == {k \in 1..n : c(k) # 0}
    IN  IF diff = {} THEN IntCmp(Len(ls), Len(rs))
        ELSE c(CHOOSE k \in diff : \A j \in diff : k <= j)

\* Ord for semver::Prerelease: no prerelease is greater than any prerelease
PrereleaseCmp(a, b) ==
    IF a = EmptyStr /\ b = EmptyStr THEN 0
    ELSE IF a = EmptyStr THEN 1
    ELSE IF b = EmptyStr THEN -1
    ELSE IdentsCmp(SplitDot(a), SplitDot(b), TRUE)

\* Ord for semver::BuildMetadata
BuildCmp(a, b) == IdentsCmp(SplitDot(a), SplitDot(b), FALSE)

\* the first comparison that is not Equal
Then(cs) ==
    LET diff == {k \in 1..Len(cs) : cs[k] # 0}
    IN  IF diff = {} THEN 0 ELSE cs[CHOOSE k \in diff : \A j \in diff : k <= j]

\* Ord for semver::Version: major, minor, patch, pre, build
VersionCmp(a, b) ==
    Then(<<IntCmp(a.major, b.major), IntCmp(a.minor, b.minor),
           IntCmp(a.patch, b.patch), PrereleaseCmp(a.pre, b.pre),
           BuildCmp(a.build, b.build)>>)

\* ------------------------------------------------------------------------
\* Tag: parsing, rendering, order
\* ------------------------------------------------------------------------
\* Tag::initial
TagInitial == [prefix |-> None, v |-> VersionParse(<<"0", ".", "1", ".", "0">>).val]

\* Tag::is_prelease
is_prelease(tag) == tag.v.pre # EmptyStr

\* Display without the `v` marker
TagDisplay_NoMarker(tag) ==
    (IF tag.prefix.some THEN tag.prefix.s \o <<"@">> ELSE EmptyStr)
        \o VersionDisplay(tag.v)

\* impl Display for Tag
TagDisplay(tag) ==
    (IF tag.prefix.some THEN tag.prefix.s \o <<"@">> ELSE EmptyStr)
        \o <<"v">> \o VersionDisplay(tag.v)

\* impl TryFrom<String> for Tag
TagTryFrom(value) ==
    LET at     == FirstIndex(value, "@")
        prefix == IF at # 0 THEN Some(SubSeq(value, 1, at - 1)) ELSE None
        tag    == IF at # 0 THEN SubSeq(value, at + 1, Len(value)) ELSE value
        raw    == IF StartsWith(tag, <<"v">>) THEN Tail(tag) ELSE value
        v      == VersionParse(raw)
    IN  IF v.ok THEN OkV([prefix |-> prefix, v |-> v.val]) ELSE ErrV

\* Ord for Option<String>: None first, then the strings by bytes
PrefixCmp(a, b) ==
    IF ~a.some /\ ~b.some THEN 0
    ELSE IF ~a.some THEN -1
    ELSE IF ~b.some THEN 1
    ELSE StrCmp(a.s, b.s)

\* #[derive(PartialOrd, Ord)] on Tag: prefix, then v
TagCmp(a, b) == Then(<<PrefixCmp(a.prefix, b.prefix), VersionCmp(a.v, b.v)>>)

\* Vec::sort (stable) under TagCmp
RECURSIVE SortTags(_)
SortTags(ts) ==
    IF ts = <<>> THEN <<>>
    ELSE LET rest == SortTags(SubSeq(ts, 1, Len(ts) - 1))
             x    == ts[Len(ts)]
             k    == Cardinality({i \in 1..Len(rest) : TagCmp(rest[i], x) <= 0})
         IN  SubSeq(rest, 1, k) \o <<x>> \o SubSeq(rest, k + 1, Len(rest))

\* ------------------------------------------------------------------------
\* next_prerelease and increment_tag
\* ------------------------------------------------------------------------
I32Max == 2147483647

I32Min == (-I32Max) - 1

\* the digits of an i32 accumulated left to right, with overflow an error
RECURSIVE AccI32(_, _, _)
AccI32(digits, acc, negative) ==
    IF digits = EmptyStr THEN OkV(acc)
    ELSE LET d == DigitVal(digits[1])
         IN  IF negative
             THEN (IF acc < (I32Min + d + 9) \div 10 THEN ErrV
                   ELSE AccI32(Tail(digits), acc * 10 - d, negative))
             ELSE (IF acc > (I32Max - d) \div 10 THEN ErrV
                   ELSE AccI32(Tail(digits), acc * 10 + d, negative))

\* str::parse::<i32>: an optional sign, then at least one digit
ParseI32(str) ==
    LET signed == str # EmptyStr /\ str[1] \in {"+", "-"}
        digits == IF signed THEN Tail(str) ELSE str
    IN  IF digits = EmptyStr \/ ~AllDigits(digits) THEN ErrV
        ELSE AccI32(digits, 0, signed /\ str[1] = "-")

\* Display for i32
I32Display(n) ==
    IF n = I32Min
    THEN <<"-", "2", "1", "4", "7", "4", "8", "3", "6", "4", "8">>
    ELSE IF n < 0 THEN <<"-">> \o NatToDigits(-n)
    ELSE NatToDigits(n)

PreStr == <<"p", "r", "e">>

\* next_prerelease; `n + 1` at i32::MAX panics in a build with overflow
\* checks and wraps to i32::MIN in a build without them
next_prerelease(before, overflow_checks) ==
    LET stripped == IF StartsWith(before, PreStr)
                    THEN OkV(SubSeq(before, 4, Len(before))) ELSE ErrV
        parsed   == IF stripped.ok THEN ParseI32(stripped.val) ELSE ErrV
    IN  IF ~parsed.ok THEN OkV(PreStr \o I32Display(0))
        ELSE IF parsed.val = I32Max
        THEN (IF overflow_checks THEN ErrV ELSE OkV(PreStr \o I32Display(I32Min)))
        ELSE OkV(PreStr \o I32Display(parsed.val + 1))

\* main.rs:485-494: the major bump; np is next_prerelease(&before.v.pre)
BumpMajor(v, params, np) ==
    IF params.major
    THEN [v EXCEPT !.major = @ + 1, !.minor = 0, !.patch = 0,
                   !.pre = IF params.pre THEN np.val ELSE EmptyStr]
    ELSE v

\* main.rs:495-503: the minor bump
BumpMinor(v, params, np) ==
    IF params.minor
    THEN [v EXCEPT !.minor = @ + 1, !.patch = 0,
                   !.pre = IF params.pre THEN np.val ELSE EmptyStr]
    ELSE v

\* the patch bump without the is_prelease test
BumpPatch_Always(v, before, params) ==
    IF params.patch
    THEN [v EXCEPT !.patch = @ + 1, !.pre = EmptyStr]
    ELSE v

\* main.rs:504-509: the patch bump
BumpPatch(v, before, params) ==
    IF params.patch
    THEN [v EXCEPT !.patch = IF ~is_prelease(before) THEN @ + 1 ELSE @,
                   !.pre = EmptyStr]
    ELSE v

\* main.rs:510-517: the prerelease bump
BumpPre(v, before, params, np) ==
    IF params.pre
    THEN (IF is_prelease(before) THEN [v EXCEPT !.pre = np.val]
          ELSE IF ~(params.major \/ params.minor \/ params.patch)
          THEN [v EXCEPT !.patch = @ + 1, !.pre = PreStr \o <<"0">>]
          ELSE v)
    ELSE v

\* increment_tag; Err is the panic of next_prerelease, which is called when
\* --pre comes with --major or --minor, or with a prerelease `before`
increment_tag(before, params, overflow_checks) ==
    LET np     == next_prerelease(before.v.pre, overflow_checks)
        called == params.pre /\ (params.major \/ params.minor \/ is_prelease(before))
        v0     == [before.v EXCEPT !.build = EmptyStr]
        v1     == BumpMajor(v0, params, np)
        v2     == BumpMinor(v1, params, np)
        v3     == BumpPatch(v2, before, params)
        v4     == BumpPre(v3, before, params, np)
    IN  IF called /\ ~np.ok THEN ErrV
        ELSE OkV([prefix |-> before.prefix, v |-> v4])

\* ------------------------------------------------------------------------
\* The tool's inputs: command lines, repositories, existing tags
\* ------------------------------------------------------------------------
Flags == [major : BOOLEAN, minor : BOOLEAN, patch : BOOLEAN, pre : BOOLEAN]

SvcStr == <<"s", "v", "c">>

MainStr == <<"m", "a", "i", "n">>

MasterStr == <<"m", "a", "s", "t", "e", "r">>

\* --prefix: absent, or a namespace
Prefixes == {None, Some(SvcStr)}

\* what `git branch --show-current` / `jj log -r @ -T bookmarks` print
BranchOutputs == {MainStr, MasterStr, <<"f", "e", "a", "t">>}

\* the tag names the repository has when the tool first runs, newest first
Repositories ==
    { <<>>,
      <<<<"v", "0", ".", "1", ".", "1">>, <<"v", "0", ".", "1", ".", "0">>>>,
      <<<<"v", "0", ".", "1", ".", "1", "-", "p", "r", "e", "5">>, <<"v", "0", ".", "1", ".", "0">>>>,
      <<<<"v", "0", ".", "1", ".", "1", "-", "p", "r", "e", "9">>>>,
      <<<<"v", "0", ".", "1", ".", "1", "-", "p", "r", "e", "1", "0">>, <<"v", "0", ".", "1", ".", "1", "-", "p", "r", "e", "9">>>>,
      <<<<"v", "0", ".", "1", ".", "1", "-", "p", "r", "e", "2", "1", "4", "7", "4", "8", "3", "6", "4", "7">>>>,
      <<<<"v", "0", ".", "1", ".", "1", "-", "p", "r", "e", "2", "1", "4", "7", "4", "8", "3", "6", "4", "8">>>>,
      <<<<"1", ".", "2", ".", "3">>, <<"j", "u", "n", "k">>>>,
      <<<<"s", "v", "c", "@", "v", "1", ".", "2", ".", "3", "+", "b", "1">>, <<"s", "v", "c", "@", "1", ".", "2", ".", "4">>, <<"v", "0", ".", "1", ".", "1">>>> }

\* ------------------------------------------------------------------------
\* State
\* ------------------------------------------------------------------------
VARIABLES
    pc,                 \* position of main
    given,              \* the flags as parsed from the command line
    args,               \* main's `args` (mutated by the defaulting)
    repo_type,          \* detect_repo_type's result
    on_default_branch,
    remote,             \* the repository's tag names, newest first
    tags,               \* main's `tags`
    latest_tag,
    next,               \* the proposed tag
    io,                 \* git / jj commands and network requests issued by this run
    outcome,            \* how the tag creation ended
    runs,               \* runs of the tool so far
    ppc,                \* position of the Tag round trip
    ptag,               \* a Tag value
    ptext,              \* a tag string
    presult,            \* result of parsing ptext
    pmarked             \* result of parsing ptext with the `v` marker inserted

mainVars == <<pc, given, args, repo_type, on_default_branch, remote, tags,
              latest_tag, next, io, outcome, runs>>

tagVars == <<ppc, ptag, ptext, presult, pmarked>>

vars == <<mainVars, tagVars>>

NoFlags == [major |-> FALSE, minor |-> FALSE, patch |-> FALSE, pre |-> FALSE,
            prefix |-> None]

\* number of TRUE entries of a list of booleans
CountTrue(bs) == Cardinality({i \in 1..Len(bs) : bs[i]})

Range(seq) == {seq[i] : i \in 1..Len(seq)}

\* the conflict test counting one too many
ConflictingBumps_OffByOne(a) == CountTrue(<<a.major, a.minor, a.patch>>) > 2

\* main.rs:96-103
ConflictingBumps(a) == CountTrue(<<a.major, a.minor, a.patch>>) > 1

\* main.rs:108-119
OnDefaultBranch(rt, out) ==
    IF rt = "Git" THEN out \in {MainStr, MasterStr} ELSE Contains(out, MainStr)

\* main.rs:121-134
DefaultIntent(a, odb) ==
    IF CountTrue(<<a.major, a.minor, a.patch, a.pre>>) = 0
    THEN (IF odb THEN [a EXCEPT !.patch = TRUE] ELSE [a EXCEPT !.pre = TRUE])
    ELSE a

\* main.rs:136-139
PreOnDefaultBranch(a, odb) == odb /\ a.pre

\* main.rs:141-144
ImplyPre(a, odb) == IF ~odb /\ ~a.pre THEN [a EXCEPT !.pre = TRUE] ELSE a

\* main.rs:223-231: filter_map(parse).filter(prefix == args.prefix)
RECURSIVE Candidates(_, _)
Candidates(names, prefix) ==
    IF names = <<>> THEN <<>>
    ELSE LET t == TagTryFrom(Head(names))
         IN  (IF t.ok /\ t.val.prefix = prefix THEN <<t.val>> ELSE <<>>)
                 \o Candidates(Tail(names), prefix)

\* the version numbers stay within the model's cap
WithinCap(tag) ==
    tag.v.major <= MaxVer /\ tag.v.minor <= MaxVer /\ tag.v.patch <= MaxVer

\* ------------------------------------------------------------------------
\* main
\* ------------------------------------------------------------------------
MainInit ==
    /\ pc = "start"
    /\ given = NoFlags
    /\ args = NoFlags
    /\ repo_type = "None"
    /\ on_default_branch = FALSE
    /\ remote \in Repositories
    /\ tags = <<>>
    /\ latest_tag = TagInitial
    /\ next = TagInitial
    /\ io = 0
    /\ outcome = "none"
    /\ runs = 0

TagIdle ==
    /\ ppc = "idle"
    /\ ptag = TagInitial
    /\ ptext = EmptyStr
    /\ presult = ErrV
    /\ pmarked = ErrV

Init == MainInit /\ TagIdle

\* main.rs:92-94: the command line is parsed
Start ==
    /\ pc = "start"
    /\ \E f \in Flags, p \in Prefixes :
           LET a == [major |-> f.major, minor |-> f.minor, patch |-> f.patch,
                     pre |-> f.pre, prefix |-> p]
           IN  given' = a /\ args' = a
    /\ pc' = "flags"
    /\ UNCHANGED <<repo_type, on_default_branch, remote, tags, latest_tag, next,
                   io, outcome, runs>>
    /\ UNCHANGED tagVars

\* main.rs:96-103: more than one of --major, --minor, --patch is an error
CheckFlags ==
    /\ pc = "flags"
    /\ pc' = IF ConflictingBumps(args) THEN "aborted" ELSE "detect"
    /\ UNCHANGED <<given, args, repo_type, on_default_branch, remote, tags,
                   latest_tag, next, io, outcome, runs>>
    /\ UNCHANGED tagVars

\* main.rs:105-119: the repository type, then the current branch / bookmarks
DetectBranch ==
    /\ pc = "detect"
    /\ \E rt \in {"Git", "Jj", "None"}, out \in BranchOutputs :
           IF rt = "None"
           THEN /\ pc' = "aborted"
                /\ UNCHANGED <<repo_type, on_default_branch, io>>
           ELSE /\ repo_type' = rt
                /\ on_default_branch' = OnDefaultBranch(rt, out)
                /\ io' = io + 1
                /\ pc' = "defaults"
    /\ UNCHANGED <<given, args, remote, tags, latest_tag, next, outcome, runs>>
    /\ UNCHANGED tagVars

\* main.rs:121-144: default the intent, reject --pre on the default branch,
\* imply --pre elsewhere
ResolveFlags ==
    /\ pc = "defaults"
    /\ LET a == DefaultIntent(args, on_default_branch)
       IN  IF PreOnDefaultBranch(a, on_default_branch)
           THEN args' = a /\ pc' = "aborted"
           ELSE args' = ImplyPre(a, on_default_branch) /\ pc' = "fetch"
    /\ UNCHANGED <<given, repo_type, on_default_branch, remote, tags, latest_tag,
                   next, io, outcome, runs>>
    /\ UNCHANGED tagVars

\* main.rs:146-221: commit to tag, git fetch, remote url, the GraphQL request;
\* any of them may fail
FetchTags ==
    /\ pc = "fetch"
    /\ \E ok \in BOOLEAN :
           /\ pc' = IF ok THEN "select" ELSE "aborted"
           /\ io' = io + (IF repo_type = "Jj" THEN 1 ELSE 0) + (IF ok THEN 3 ELSE 1)
    /\ UNCHANGED <<given, args, repo_type, on_default_branch, remote, tags,
                   latest_tag, next, outcome, runs>>
    /\ UNCHANGED tagVars

\* main.rs:223-233: parse the names, keep the requested prefix, sort
SelectTags ==
    /\ pc = "select"
    /\ tags' = SortTags(Candidates(remote, args.prefix))
    /\ pc' = "increment"
    /\ UNCHANGED <<given, args, repo_type, on_default_branch, remote, latest_tag,
                   next, io, outcome, runs>>
    /\ UNCHANGED tagVars

\* main.rs:246-247: pop the maximum (or Tag::initial) and increment it
Increment ==
    /\ pc = "increment"
    /\ LET latest == IF tags = <<>> THEN TagInitial ELSE tags[Len(tags)]
       IN  /\ latest_tag' = latest
           /\ tags' = IF tags = <<>> THEN tags ELSE SubSeq(tags, 1, Len(tags) - 1)
           /\ \E overflow_checks \in BOOLEAN :
                  LET r == increment_tag(latest, args, overflow_checks)
                  IN  IF r.ok
                      THEN WithinCap(r.val) /\ next' = r.val /\ pc' = "prompt"
                      ELSE next' = next /\ pc' = "panicked"
    /\ UNCHANGED <<given, args, repo_type, on_default_branch, remote, io,
                   outcome, runs>>
    /\ UNCHANGED tagVars

\* main.rs:249-293: the user accepts the proposed default, which is parsed
\* again, created with `git tag` and pushed; an existing name is refused
CreateTag ==
    /\ pc = "prompt"
    /\ LET t == TagTryFrom(TagDisplay(next))
       IN  IF ~t.ok
           THEN /\ pc' = "aborted"
                /\ UNCHANGED <<remote, io, outcome>>
           ELSE LET name == TagDisplay(t.val)
                IN  /\ pc' = "done"
                    /\ IF name \in Range(remote)
                       THEN /\ outcome' = "exists"
                            /\ io' = io + 1
                            /\ UNCHANGED remote
                       ELSE /\ outcome' = "created"
                            /\ io' = io + 2
                            /\ remote' = <<name>> \o remote
    /\ UNCHANGED <<given, args, repo_type, on_default_branch, tags, latest_tag,
                   next, runs>>
    /\ UNCHANGED tagVars

\* the tool is run again on the same repository
NextRun ==
    /\ pc \in {"done", "aborted", "panicked"}
    /\ runs + 1 < MaxRuns
    /\ runs' = runs + 1
    /\ pc' = "start"
    /\ given' = NoFlags
    /\ args' = NoFlags
    /\ repo_type' = "None"
    /\ on_default_branch' = FALSE
    /\ tags' = <<>>
    /\ latest_tag' = TagInitial
    /\ next' = TagInitial
    /\ io' = 0
    /\ outcome' = "none"
    /\ UNCHANGED remote
    /\ UNCHANGED tagVars

Next ==
    \/ Start
    \/ CheckFlags
    \/ DetectBranch
    \/ ResolveFlags
    \/ FetchTags
    \/ SelectTags
    \/ Increment
    \/ CreateTag
    \/ NextRun

Spec == Init /\ [][Next]_vars

\* ------------------------------------------------------------------------
\* The Tag value type on its own: rendering and parsing of arbitrary values
\* ------------------------------------------------------------------------
\* version numbers of the Tag values
Numbers == (0..MaxVer) \cup {10, 205}

\* prerelease labels and build metadata of the Tag values
Labels == {EmptyStr, <<"p", "r", "e", "0">>, <<"p", "r", "e", "1", "0">>, <<"r", "c", ".", "1">>, <<"7">>}

Builds == {EmptyStr, <<"b", "1">>}

\* Option<String> values of Tag.prefix
TagPrefixes == {None, Some(EmptyStr), Some(SvcStr), Some(<<"a", "@", "b">>)}

TagInputs ==
    {[prefix |-> p,
      v |-> [major |-> n[1], minor |-> n[2], patch |-> n[3], pre |-> l,
             build |-> b]] :
        p \in TagPrefixes, n \in Numbers \X Numbers \X (0..1), l \in Labels,
        b \in Builds}

\* raw tag names
RawInputs ==
    { <<"1", ".", "2", ".", "3">>,
      <<"v", "1", ".", "2", ".", "3">>,
      <<"s", "v", "c", "@", "1", ".", "2", ".", "3">>,
      <<"s", "v", "c", "@", "v", "1", ".", "2", ".", "3">>,
      <<"0", ".", "1", ".", "1", "-", "p", "r", "e", "5">>,
      <<"s", "v", "c", "@", "0", ".", "1", ".", "1", "-", "p", "r", "e", "5">>,
      <<"1", ".", "2", ".", "3", "+", "b", "1">>,
      <<"s", "v", "c", "@", "1", ".", "2", ".", "3", "+", "b", "1">>,
      <<"j", "u", "n", "k">>,
      <<"s", "v", "c", "@", "j", "u", "n", "k">>,
      <<"1", ".", "2">>,
      <<"v", "1", ".", "2">> }

\* the raw name with `v` inserted before its version body
InsertMarker(raw) ==
    LET at == FirstIndex(raw, "@")
    IN  SubSeq(raw, 1, at) \o <<"v">> \o SubSeq(raw, at + 1, Len(raw))

MainIdle ==
    /\ pc = "off"
    /\ given = NoFlags
    /\ args = NoFlags
    /\ repo_type = "None"
    /\ on_default_branch = FALSE
    /\ remote = <<>>
    /\ tags = <<>>
    /\ latest_tag = TagInitial
    /\ next = TagInitial
    /\ io = 0
    /\ outcome = "none"
    /\ runs = 0

InitTag ==
    /\ MainIdle
    /\ presult = ErrV
    /\ pmarked = ErrV
    /\ \/ ppc = "tag" /\ ptag \in TagInputs /\ ptext = EmptyStr
       \/ ppc = "raw" /\ ptag = TagInitial /\ ptext \in RawInputs

\* Display for Tag (main.rs:252, to_string)
Render ==
    /\ ppc = "tag"
    /\ ptext' = TagDisplay(ptag)
    /\ ppc' = "rendered"
    /\ UNCHANGED <<ptag, presult, pmarked>>
    /\ UNCHANGED mainVars

\* Tag::try_from on the rendered text (main.rs:253-256)
Reparse ==
    /\ ppc = "rendered"
    /\ presult' = TagTryFrom(ptext)
    /\ ppc' = "reparsed"
    /\ UNCHANGED <<ptag, ptext, pmarked>>
    /\ UNCHANGED mainVars

\* Tag::try_from on a raw name (main.rs:229)
ParseRaw ==
    /\ ppc = "raw"
    /\ presult' = TagTryFrom(ptext)
    /\ ppc' = "parsed"
    /\ UNCHANGED <<ptag, ptext, pmarked>>
    /\ UNCHANGED mainVars

\* Tag::try_from on the same name with the `v` marker
ParseMarked ==
    /\ ppc = "parsed"
    /\ pmarked' = TagTryFrom(InsertMarker(ptext))
    /\ ppc' = "compared"
    /\ UNCHANGED <<ptag, ptext, presult>>
    /\ UNCHANGED mainVars

NextTag ==
    \/ Render
    \/ Reparse
    \/ ParseRaw
    \/ ParseMarked

SpecTag == InitTag /\ [][NextTag]_vars

\* ------------------------------------------------------------------------
\* Properties
\* ------------------------------------------------------------------------
\* main has called increment_tag and it has returned
Proposed == pc = "prompt"

\* the label is pre<N>, N a non-negative integer in decimal
IsPreN(label) ==
    /\ StartsWith(label, <<"p", "r", "e">>)
    /\ Len(label) > 3
    /\ \A i \in 4..Len(label) : IsDigit(label[i])
    /\ (Len(label) > 4 => label[4] # "0")

PreN(label) == SubSeq(label, 4, Len(label))

\* N + 1 on the decimal digits of N, of any size
RECURSIVE IncDigits(_)
IncDigits(ds) ==
    IF ds = <<>> THEN <<"1">>
    ELSE IF ds[Len(ds)] = "9"
    THEN IncDigits(SubSeq(ds, 1, Len(ds) - 1)) \o <<"0">>
    ELSE SubSeq(ds, 1, Len(ds) - 1) \o <<DigitChars[DigitVal(ds[Len(ds)]) + 2]>>

\* A < B on the decimal digits of A and B
DigitsLess(a, b) ==
    \/ Len(a) < Len(b)
    \/ /\ Len(a) = Len(b)
       /\ \E i \in 1..Len(a) :
              /\ DigitVal(a[i]) < DigitVal(b[i])
              /\ \A j \in 1..(i - 1) : a[j] = b[j]

\* rule 4.3.a: the successor of a prerelease label
Successor(label) ==
    IF IsPreN(label) THEN <<"p", "r", "e">> \o IncDigits(PreN(label))
    ELSE <<"p", "r", "e", "0">>

OnlyPre(a) == a.pre /\ ~a.major /\ ~a.minor /\ ~a.patch

BumpCount(a) == Cardinality({k \in {"major", "minor", "patch"} : a[k]})

C2_PreOnly ==
    (Proposed /\ OnlyPre(args)) =>
        /\ next.v.major = latest_tag.v.major
        /\ next.v.minor = latest_tag.v.minor
        /\ IF latest_tag.v.pre # EmptyStr
           THEN /\ next.v.patch = latest_tag.v.patch
                /\ next.v.pre = Successor(latest_tag.v.pre)
           ELSE /\ next.v.patch = latest_tag.v.patch + 1
                /\ next.v.pre = <<"p", "r", "e", "0">>

\* C3: bump_major alone of the three gives (major + 1, 0, 0), bump_minor alone
\* gives (major, minor + 1, 0); the label is empty without bump_pre and the
\* successor of the previous label with it, for every previous tag.
C3_MajorMinor ==
    (Proposed /\ BumpCount(args) = 1 /\ (args.major \/ args.minor)) =>
        /\ args.major => /\ next.v.major = latest_tag.v.major + 1
                         /\ next.v.minor = 0
                         /\ next.v.patch = 0
        /\ args.minor => /\ next.v.major = latest_tag.v.major
                         /\ next.v.minor = latest_tag.v.minor + 1
                         /\ next.v.patch = 0
        /\ next.v.pre = IF args.pre THEN Successor(latest_tag.v.pre) ELSE EmptyStr

\* C4: two candidates of the same prefix and major.minor.patch with labels
\* pre<A> and pre<B> are sorted by the numbers: the one with pre<A> is before
\* the one with pre<B> exactly when A < B.
C4_NumericPreOrder ==
    pc = "increment" =>
        \A i, j \in 1..Len(tags) :
            (/\ tags[i].prefix = tags[j].prefix
             /\ tags[i].v.major = tags[j].v.major
             /\ tags[i].v.minor = tags[j].v.minor
             /\ tags[i].v.patch = tags[j].v.patch
             /\ IsPreN(tags[i].v.pre)
             /\ IsPreN(tags[j].v.pre)
             /\ tags[i].v.pre # tags[j].v.pre)
                => (i < j <=> DigitsLess(PreN(tags[i].v.pre), PreN(tags[j].v.pre)))

C6_LenientMarker ==
    (/\ ppc = "compared"
     /\ VersionParse(SubSeq(ptext, FirstIndex(ptext, "@") + 1, Len(ptext))).ok)
        => (presult.ok /\ pmarked.ok /\ presult.val = pmarked.val)

\* C7: the proposed tag carries the requested prefix: the baseline is a
\* candidate of that prefix or, when there is none, 0.1.0 with that prefix,
\* and increment_tag keeps the prefix.
C7_RequestedPrefix ==
    Proposed =>
        /\ latest_tag.prefix = args.prefix
        /\ (\A i \in 1..Len(remote) :
                TagTryFrom(remote[i]).ok => TagTryFrom(remote[i]).val.prefix # args.prefix)
               => latest_tag = [prefix |-> args.prefix, v |-> TagInitial.v]
        /\ next.prefix = args.prefix

\* C8: a run with two or more of --major, --minor, --patch aborts before any
\* git / jj command or network request; a run that reaches increment_tag has
\* at most one of major, minor, patch and at least one of the four intents,
\* patch being defaulted on the default branch and pre elsewhere.
C8_CallerEnforcesPreconditions ==
    /\ (pc # "start" /\ BumpCount(given) >= 2)
           => (pc \in {"flags", "aborted"} /\ io = 0)
    /\ pc \in {"increment", "prompt", "panicked", "done"}
           => /\ BumpCount(args) <= 1
              /\ args.major \/ args.minor \/ args.patch \/ args.pre
              /\ (BumpCount(given) = 0 /\ ~given.pre)
                     => IF on_default_branch
                        THEN args.patch /\ ~args.pre
                        ELSE args.pre /\ BumpCount(args) = 0

\* C8 witness: a run without flags on the default branch has reached
\* increment_tag with patch defaulted
C8_Witness ==
    /\ Proposed
    /\ BumpCount(given) = 0
    /\ ~given.pre
    /\ on_default_branch
    /\ args.patch

\* C9: over any number of runs on tags of one prefix, the proposed tag is
\* never one that already exists.
C9_NeverProposesExisting ==
    (/\ pc = "done"
     /\ \A i \in 1..Len(remote) :
            TagTryFrom(remote[i]).ok /\ TagTryFrom(remote[i]).val.prefix = args.prefix)
        => outcome = "created"

\* C10: the proposed tag is a prerelease exactly when the run is not on the
\* default branch.
C10_PrereleaseIffBranch ==
    Proposed => (on_default_branch <=> next.v.pre = EmptyStr)

====
